---- MODULE Spec2Model ----
\* A model of mystubs/update.py: the incremental stub builder.  Strings are
\* sequences of byte values, a directory tree is a finite map from relative
\* paths (sequences of name components) to file contents, and a hasher is the
\* byte stream fed to its update(): blake2b is taken to be collision free, so
\* two digests are equal exactly when the streams are.
EXTENDS Integers, Sequences, FiniteSets, TLC

\* ---------------------------------------------------------------- strings
Slash == 47
ByteRange == 256

dot_pyi == <<46, 112, 121, 105>>                    \* ".pyi"
mod_a == <<97>>                                   \* module names "a", "b"
mod_b == <<98>>
init_pyi == <<95, 95, 105, 110, 105, 116, 95, 95>> \o dot_pyi
dot_local == <<46, 108, 111, 99, 97, 108>>        \* ".local"
local_stubs_directory == <<46, 109, 121, 115, 116, 117, 98, 115>>   \* ".mystubs"
mypy_version == <<48, 46, 54, 53, 48>>                 \* "0.650"
auto == <<97, 117, 116, 111>>                      \* "auto"
blake2b == <<98, 108, 97, 107, 101, 50, 98>>        \* "blake2b"
md5 == <<109, 100, 53>>                            \* "md5", not in _allowed_hashes

\* target_version of a module with no entry in the version source (None)
None == <<-1>>

\* file contents and version strings, one byte each
X == <<120>>
Y == <<121>>
Z == <<122>>
G == <<103>>
sub_pyi == <<115>> \o dot_pyi
v1 == <<49>>
v2 == <<50>>

\* path.join of two path strings
join(p, q) == p \o <<Slash>> \o q

\* str.encode('utf-8') of a string of ASCII code points: one byte per char
encode(s) == [i \in 1..Len(s) |-> s[i] % ByteRange]

\* Python's str ordering: lexicographic on code points, a prefix sorts first
RECURSIVE StrLess(_, _)
StrLess(s, t) ==
    IF s = <<>> THEN t /= <<>>
    ELSE IF t = <<>> THEN FALSE
    ELSE IF Head(s) /= Head(t) THEN Head(s) < Head(t)
    ELSE StrLess(Tail(s), Tail(t))

\* sorted with the list left as the filesystem gave it
unsorted(names) == names

\* sorted(names): the list in increasing str order
RECURSIVE Insert(_, _)
Insert(n, names) ==
    IF names = <<>> THEN <<n>>
    ELSE IF StrLess(n, Head(names)) THEN <<n>> \o names
    ELSE <<Head(names)>> \o Insert(n, Tail(names))
RECURSIVE sorted(_)
sorted(names) ==
    IF names = <<>> THEN <<>>
    ELSE Insert(Head(names), sorted(Tail(names)))

\* ------------------------------------------------------------ directories
\* A directory is [exists, files]; files maps relative paths to contents and
\* the subdirectories are the proper prefixes of those paths.
IsPrefix(pre, p) == Len(pre) <= Len(p) /\ SubSeq(p, 1, Len(pre)) = pre

NoFiles == [p \in {} |-> <<>>]
MissingDir == [exists |-> FALSE, files |-> NoFiles]
Dir(files) == [exists |-> TRUE, files |-> files]

FilesIn(files, prefix) ==
    {p[Len(prefix) + 1] : p \in {q \in DOMAIN files :
        IsPrefix(prefix, q) /\ Len(q) = Len(prefix) + 1}}

DirsIn(files, prefix) ==
    {p[Len(prefix) + 1] : p \in {q \in DOMAIN files :
        IsPrefix(prefix, q) /\ Len(q) > Len(prefix) + 1}}

\* the path string of the directory `prefix` below `root`
RECURSIVE PathOf(_, _)
PathOf(root, prefix) ==
    IF prefix = <<>> THEN root
    ELSE PathOf(join(root, Head(prefix)), Tail(prefix))

\* ------------------------------------------------------------------ state
VARIABLES
    modules,        \* config['modules']: the entries of .mystubs.toml, in file order
    discover_modules, \* config['discover_modules']
    requirements,   \* the matching lines of requirements.txt: <<name, version>>
    installed,      \* what find_spec and stubgen do for each package name
    user_local,     \* the two user-scope override directories of each module
    project_local,  \* .mystubs/.local/<name> of each module
    artifacts,      \* the files below .mystubs, outside .local and .state
    records,        \* .mystubs/.state/<name>/build.version of each module
    fault,          \* the copy the filesystem is about to refuse, if any
    pc,             \* "idle", or "running" inside run()'s loop
    todo,           \* the Mods gather_modules_to_build has yet to yield
    log,            \* this run's update_if_required calls, in order
    exit,           \* how the last run ended: "none", "ok" or "raised"
    last,           \* the most recent step, with what it saw and did
    runs,
    edits,
    links,          \* the symbolic links directly below .mystubs, and what they point at
    listing,        \* the order in which the filesystem enumerates names
    hashed          \* what each hash_dir call of a fingerprint check fed the hasher

vars == <<modules, discover_modules, requirements, installed, user_local,
          project_local, artifacts, records, fault, pc, todo, log, exit, last, runs, edits,
          links, listing, hashed>>

env == <<modules, discover_modules, requirements, installed, user_local,
         project_local>>

MaxRuns == 2
MaxEdits == 1

ModNames == {mod_a, mod_b}

\* no symbolic link below .mystubs
NoLinks == [n \in {} |-> "none"]

\* an order in which a filesystem may enumerate the names of the model
NameOrder == <<mod_b \o dot_pyi, sub_pyi, mod_b, init_pyi, mod_a \o dot_pyi, mod_a>>

\* ------------------------------------------------------------ fingerprint
\* the dirs and files lists of os.walk: the names as the filesystem lists them
Enumerate(names) == SelectSeq(listing, LAMBDA n : n \in names)

\* hash_file without the f.read(): the path alone
hash_file_path_only(file_to_hash, content) == encode(file_to_hash)

\* hash_file: the path string, then the file's bytes
hash_file(file_to_hash, content) == encode(file_to_hash) \o content

RECURSIVE HashFiles(_, _, _, _)
HashFiles(root, files, prefix, names) ==
    IF names = <<>> THEN <<>>
    ELSE hash_file(join(PathOf(root, prefix), Head(names)),
                   files[prefix \o <<Head(names)>>])
         \o HashFiles(root, files, prefix, Tail(names))

\* the body of hash_dir's os.walk loop from directory `prefix` downwards:
\* the directory's path, its files in sorted order, then each subdirectory
\* in sorted order
RECURSIVE WalkBytes(_, _, _)
RECURSIVE WalkDirs(_, _, _, _)
WalkBytes(root, files, prefix) ==
    encode(PathOf(root, prefix))
    \o HashFiles(root, files, prefix, sorted(Enumerate(FilesIn(files, prefix))))
    \o WalkDirs(root, files, prefix, sorted(Enumerate(DirsIn(files, prefix))))
WalkDirs(root, files, prefix, names) ==
    IF names = <<>> THEN <<>>
    ELSE WalkBytes(root, files, prefix \o <<Head(names)>>)
         \o WalkDirs(root, files, prefix, Tail(names))

\* item_count: one per directory visited plus one per file
Prefixes(files) ==
    UNION {{SubSeq(p, 1, n) : n \in 0..(Len(p) - 1)} : p \in DOMAIN files}
item_count(d) ==
    IF d.exists
    THEN Cardinality(Prefixes(d.files) \cup {<<>>}) + Cardinality(DOMAIN d.files)
    ELSE 0

\* bytes([item_count]) raises ValueError outside range(0, 256)
hash_dir_raises(d) == item_count(d) >= ByteRange

\* hash_dir returning after the flag whenever the directory is not there
hash_dir_absent_returns(dir, d) ==
    IF d.exists
    THEN <<1>> \o WalkBytes(dir, d.files, <<>>) \o <<item_count(d)>>
    ELSE <<0>>

hash_dir(dir, d) ==
    <<IF d.exists THEN 1 ELSE 0>>
    \o (IF d.exists THEN WalkBytes(dir, d.files, <<>>) ELSE <<>>)
    \o <<item_count(d)>>
\* ------------------------------------------------------------- dictionaries
EmptyDict == [k \in {} |-> <<>>]
Get(d, k, default) == IF k \in DOMAIN d THEN d[k] ELSE default
Update(d, e) == [k \in DOMAIN d \cup DOMAIN e |-> IF k \in DOMAIN e THEN e[k] ELSE d[k]]

\* ------------------------------------------------------------ build record
\* A record file is missing or a text of lines; a well-formed line is
\* <<key, value>>, anything else makes toml.load raise TomlDecodeError.
MissingFile == [kind |-> "missing", lines |-> <<>>]
Text(lines) == [kind |-> "text", lines |-> lines]
Malformed == <<"?">>

RECURSIVE DumpKeys(_, _)
DumpKeys(d, keys) ==
    IF keys = {} THEN <<>>
    ELSE LET k == CHOOSE x \in keys : TRUE
         IN  <<<<k, d[k]>>>> \o DumpKeys(d, keys \ {k})

\* toml.dump: one line per key of the dict
toml_dump(d) == Text(DumpKeys(d, DOMAIN d))

toml_parses(f) == \A i \in 1..Len(f.lines) : Len(f.lines[i]) = 2

\* toml.load of a file that parses: the dict of its lines
toml_load(f) ==
    [k \in {f.lines[i][1] : i \in 1..Len(f.lines)} |->
        f.lines[CHOOSE i \in 1..Len(f.lines) : f.lines[i][1] = k][2]]
\* -------------------------------------------------------------------- Mod
Mod(name, config) == [name |-> name, config |-> config]

package_name(mod) == Get(mod.config, "package_name", mod.name)

\* auto_versions: the dict of the requirement lines, a later line of the
\* same name replacing the version of an earlier one
auto_versions ==
    [n \in {requirements[i][1] : i \in 1..Len(requirements)} |->
        LET at == {i \in 1..Len(requirements) : requirements[i][1] = n}
        IN  requirements[CHOOSE i \in at : \A j \in at : j <= i][2]]

\* dict.get: None when the package is not in the version source
auto_version(package) ==
    IF package \in DOMAIN auto_versions THEN auto_versions[package] ELSE None

target_version(mod) ==
    LET version == Get(mod.config, "version", auto)
    IN  IF version = auto THEN auto_version(mod.name) ELSE version

prev_build_record(mod) == records[mod.name]

project_local_stubs_overrides(mod) ==
    join(join(local_stubs_directory, dot_local), mod.name)

\* the directory .mystubs/<name> as the artifacts show it
IsDir(arts, name) == \E p \in DOMAIN arts : Len(p) >= 2 /\ p[1] = name
IsFile(arts, name) == <<name>> \in DOMAIN arts
SubTree(arts, name) ==
    Dir([q \in {Tail(p) : p \in {r \in DOMAIN arts : Len(r) >= 2 /\ r[1] = name}}
            |-> arts[<<name>> \o q]])

HashArtifact(arts, artifact) ==
    LET art_target == join(local_stubs_directory, artifact)
    IN  IF IsDir(arts, artifact) THEN hash_dir(art_target, SubTree(arts, artifact))
        ELSE IF IsFile(arts, artifact) THEN hash_file(art_target, arts[<<artifact>>])
        ELSE <<>>

\* hash_current_state with the user-scope override directories hashed too
hash_current_state_user_dirs(mod, arts) ==
    encode(mypy_version)
    \o encode(target_version(mod))
    \o hash_dir(join(v1, mod.name), user_local[mod.name][1])
    \o hash_dir(join(v2, mod.name), user_local[mod.name][2])
    \o hash_dir(project_local_stubs_overrides(mod), project_local[mod.name])
    \o HashArtifact(arts, package_name(mod) \o dot_pyi)
    \o HashArtifact(arts, package_name(mod))

\* what Mod.hash_current_state feeds the hasher
hash_current_state(mod, arts) ==
    encode(mypy_version)
    \o encode(target_version(mod))
    \o hash_dir(project_local_stubs_overrides(mod), project_local[mod.name])
    \o HashArtifact(arts, package_name(mod) \o dot_pyi)
    \o HashArtifact(arts, package_name(mod))

\* None has no encode (AttributeError); an oversized tree has no count byte
hash_current_state_raises(mod, arts) ==
    \/ target_version(mod) = None
    \/ hash_dir_raises(project_local[mod.name])
    \/ \E artifact \in {package_name(mod) \o dot_pyi, package_name(mod)} :
          IsDir(arts, artifact) /\ hash_dir_raises(SubTree(arts, artifact))

_allowed_hashes == {blake2b}

\* is_built_version with hashlib.blake2b used whatever hash_algo says
is_built_version_any_algo(mod, target, arts) ==
    IF target = None THEN "False"
    ELSE LET f == prev_build_record(mod) IN
    IF f.kind = "missing" THEN "False"
    ELSE IF ~toml_parses(f) THEN "raise"
    ELSE LET build_record == toml_load(f) IN
    IF "version" \notin DOMAIN build_record THEN "raise"
    ELSE IF build_record["version"] /= target THEN "False"
    ELSE IF "hash" \notin DOMAIN build_record THEN "raise"
    ELSE IF "hash_algo" \notin DOMAIN build_record THEN "raise"
    ELSE IF hash_current_state_raises(mod, arts) THEN "raise"
    ELSE IF build_record["hash"] = hash_current_state(mod, arts) THEN "True"
    ELSE "False"

\* is_built_version: "True", "False", or "raise" when an exception escapes
is_built_version(mod, target, arts) ==
    IF target = None THEN "False"
    ELSE LET f == prev_build_record(mod) IN
    IF f.kind = "missing" THEN "False"
    ELSE IF ~toml_parses(f) THEN "raise"
    ELSE LET build_record == toml_load(f) IN
    IF "version" \notin DOMAIN build_record THEN "raise"
    ELSE IF build_record["version"] /= target THEN "False"
    ELSE IF "hash" \notin DOMAIN build_record THEN "raise"
    ELSE IF "hash_algo" \notin DOMAIN build_record THEN "raise"
    ELSE IF build_record["hash_algo"] \notin _allowed_hashes THEN "False"
    ELSE IF hash_current_state_raises(mod, arts) THEN "raise"
    ELSE IF build_record["hash"] = hash_current_state(mod, arts) THEN "True"
    ELSE "False"

\* record_build_state with the fingerprint taken before generation and layering
record_build_state_early(mod, arts) ==
    LET build_record == [version |-> target_version(mod),
                         hash |-> hash_current_state(mod, artifacts),
                         hash_algo |-> blake2b]
    IN  toml_dump(Update(mod.config, build_record))

\* the file record_build_state leaves behind
record_build_state(mod, arts) ==
    LET build_record == [version |-> target_version(mod),
                         hash |-> hash_current_state(mod, arts),
                         hash_algo |-> blake2b]
    IN  toml_dump(Update(mod.config, build_record))
\* --------------------------------------------------------------- registry
\* the names of auto_versions().items(), in order of first appearance
RECURSIVE FirstNames(_, _)
FirstNames(lines, seen) ==
    IF lines = <<>> THEN <<>>
    ELSE IF Head(lines)[1] \in seen THEN FirstNames(Tail(lines), seen)
    ELSE <<Head(lines)[1]>> \o FirstNames(Tail(lines), seen \cup {Head(lines)[1]})

\* an entry given as a bare version string has no get(): AttributeError
Details(entry) ==
    IF "bare" \in DOMAIN entry.details
    THEN [version |-> entry.details["bare"]]
    ELSE entry.details

Skip(entry) ==
    IF "bare" \in DOMAIN entry.details THEN FALSE
    ELSE Get(entry.details, "skip", FALSE)

RECURSIVE Configured(_)
Configured(entries) ==
    IF entries = <<>> THEN <<>>
    ELSE (IF Skip(Head(entries)) THEN <<>>
          ELSE <<Mod(Head(entries).name, Details(Head(entries)))>>)
         \o Configured(Tail(entries))

RECURSIVE Discovered(_, _)
Discovered(names, configured_modules) ==
    IF names = <<>> THEN <<>>
    ELSE (IF Head(names) \in configured_modules THEN <<>>
          ELSE <<Mod(Head(names), [version |-> auto_versions[Head(names)]])>>)
         \o Discovered(Tail(names), configured_modules)

\* gather_modules_to_build with configured_modules.add inside `if not skip`
gather_modules_skipped_rediscovered ==
    LET configured_modules ==
            {modules[i].name : i \in {j \in 1..Len(modules) : ~Skip(modules[j])}}
    IN  Configured(modules)
        \o (IF discover_modules
            THEN Discovered(FirstNames(requirements, {}), configured_modules)
            ELSE <<>>)

\* gather_modules_to_build with the test reading `if skip`
gather_modules_skip_inverted ==
    LET configured_modules == {modules[i].name : i \in 1..Len(modules)}
        skipped == SelectSeq(modules, Skip)
    IN  [i \in 1..Len(skipped) |-> Mod(skipped[i].name, Details(skipped[i]))]
        \o (IF discover_modules
            THEN Discovered(FirstNames(requirements, {}), configured_modules)
            ELSE <<>>)

\* gather_modules_to_build without the `if not skip` test
gather_modules_yield_skipped ==
    LET configured_modules == {modules[i].name : i \in 1..Len(modules)}
    IN  [i \in 1..Len(modules) |-> Mod(modules[i].name, Details(modules[i]))]
        \o (IF discover_modules
            THEN Discovered(FirstNames(requirements, {}), configured_modules)
            ELSE <<>>)

gather_modules_to_build ==
    LET configured_modules == {modules[i].name : i \in 1..Len(modules)}
    IN  Configured(modules)
        \o (IF discover_modules
            THEN Discovered(FirstNames(requirements, {}), configured_modules)
            ELSE <<>>)

\* ---------------------------------------------------------------- layering
\* copy_stubs_into_place as a mirror: what the source lacks is removed
copy_stubs_mirrored(arts, d) ==
    IF ~d.exists THEN arts ELSE d.files

\* copy_stubs_into_place of the files `done` of directory d: every file
\* lands at the same relative path below .mystubs
CopyFiles(arts, d, done) ==
    [p \in DOMAIN arts \cup done |-> IF p \in done THEN d.files[p] ELSE arts[p]]

copy_stubs_into_place(arts, d) ==
    IF ~d.exists THEN arts ELSE CopyFiles(arts, d, DOMAIN d.files)

\* --------------------------------------------------------------- generator
NotFound == [found |-> FALSE, units |-> <<>>]
Unit(ok, files) == [ok |-> ok, stubs |-> files]

gather_stubgen_jobs(package) ==
    IF installed[package].found THEN installed[package].units ELSE <<>>

\* the stubgen calls made before check_call raises or the jobs run out
Invoked(jobs) ==
    IF \E i \in 1..Len(jobs) : ~jobs[i].ok
    THEN CHOOSE i \in 1..Len(jobs) : ~jobs[i].ok /\ \A j \in 1..(i - 1) : jobs[j].ok
    ELSE Len(jobs)

\* the temporary out directory after every job has run
RECURSIVE StubsOf(_)
StubsOf(jobs) ==
    IF jobs = <<>> THEN NoFiles
    ELSE Update(Head(jobs).stubs, StubsOf(Tail(jobs)))

\* ------------------------------------------------------------------ build
\* The four copies of one build, in the order update_if_required makes them:
\* the generated stubs, the two user-scope directories, the project-local one.
\* the project-local directory copied before the user-scope ones
override_dirs_local_first(mod) ==
    <<project_local[mod.name], user_local[mod.name][1], user_local[mod.name][2]>>

override_dirs(mod) ==
    <<user_local[mod.name][1], user_local[mod.name][2], project_local[mod.name]>>

Sources(mod) ==
    <<Dir(StubsOf(gather_stubgen_jobs(package_name(mod))))>> \o override_dirs(mod)

RECURSIVE Layered(_, _, _)
Layered(arts, srcs, n) ==
    IF n = 0 THEN arts
    ELSE copy_stubs_into_place(Layered(arts, srcs, n - 1), srcs[n])

\* A fault is a copy that fails (disk full, permission denied): shutil.copy2
\* raises in source `stage` of module `name` after the files `done` were
\* written.  Stage 0 is no fault.  os.walk is top-down, so a file is copied
\* only after every file of the directories above it.
NoFault == [name |-> <<>>, stage |-> 0, done |-> {}]
DirName(p) == SubSeq(p, 1, Len(p) - 1)
WalkPrefix(done, files) ==
    \A p \in done, q \in files \ done :
       ~(IsPrefix(DirName(q), DirName(p)) /\ DirName(q) /= DirName(p))
Faults(mod) ==
    UNION {{[name |-> mod.name, stage |-> s, done |-> d] :
               d \in {e \in (SUBSET DOMAIN Sources(mod)[s].files)
                               \ {DOMAIN Sources(mod)[s].files} :
                         WalkPrefix(e, DOMAIN Sources(mod)[s].files)}}
           : s \in {t \in 1..4 : Sources(mod)[t].exists}}

\* generate_stubs with subprocess.call: a failing stubgen goes unnoticed
generate_stubs_unchecked(mod, arts, f) ==
    LET jobs == gather_stubgen_jobs(package_name(mod))
        out == Dir(StubsOf(SelectSeq(jobs, LAMBDA job : job.ok)))
    IN  IF f.name = mod.name /\ f.stage = 1
        THEN [raised |-> TRUE, artifacts |-> CopyFiles(arts, out, f.done),
              invoked |-> Len(jobs)]
        ELSE [raised |-> FALSE, artifacts |-> copy_stubs_into_place(arts, out),
              invoked |-> Len(jobs)]

\* generate_stubs: every job's stubgen runs in a temporary directory, whose
\* out tree is then copied into place; check_call raises on a failing job
\* and the temporary directory is dropped
generate_stubs(mod, arts, f) ==
    LET jobs == gather_stubgen_jobs(package_name(mod))
        out == Dir(StubsOf(jobs))
    IN  IF \E i \in 1..Len(jobs) : ~jobs[i].ok
        THEN [raised |-> TRUE, artifacts |-> arts, invoked |-> Invoked(jobs)]
        ELSE IF f.name = mod.name /\ f.stage = 1
        THEN [raised |-> TRUE, artifacts |-> CopyFiles(arts, out, f.done),
              invoked |-> Len(jobs)]
        ELSE [raised |-> FALSE, artifacts |-> copy_stubs_into_place(arts, out),
              invoked |-> Len(jobs)]

Event(op, ok) == <<op, ok>>
RECURSIVE Events(_, _, _)
Events(op, n, last_ok) ==
    IF n = 0 THEN <<>>
    ELSE IF n = 1 THEN <<Event(op, last_ok)>>
    ELSE <<Event(op, TRUE)>> \o Events(op, n - 1, last_ok)

\* update_if_required(mod) when the copy fault f is pending: the verdict, how
\* the call ended, the files and record it leaves, and what it did.
update_if_required(mod, f) ==
    LET name == mod.name
        verdict == is_built_version(mod, target_version(mod), artifacts)
        srcs == Sources(mod)
        same == [verdict |-> verdict, outcome |-> "raised", artifacts |-> artifacts,
                 record |-> records[name], steps |-> <<>>, invoked |-> 0]
        g == generate_stubs(mod, artifacts, f)
        began == [same EXCEPT !.invoked = g.invoked, !.artifacts = g.artifacts,
                              !.steps = <<Event("generate", ~g.raised)>>]
    IN  IF verdict = "raise" THEN same
        ELSE IF verdict = "True" THEN [same EXCEPT !.outcome = "uptodate"]
        ELSE IF g.raised THEN began
        ELSE IF f.name = name /\ f.stage > 1
        THEN [began EXCEPT !.steps = began.steps \o Events("layer", f.stage - 1, FALSE),
                           !.artifacts = CopyFiles(Layered(g.artifacts, Tail(srcs), f.stage - 2),
                                                   srcs[f.stage], f.done)]
        ELSE LET arts == Layered(g.artifacts, Tail(srcs), 3)
                 done == [began EXCEPT !.steps = began.steps \o Events("layer", 3, TRUE),
                                       !.artifacts = arts]
             IN  IF hash_current_state_raises(mod, arts) THEN done
                 ELSE [done EXCEPT !.outcome = "built",
                                   !.steps = done.steps \o <<Event("record", TRUE)>>,
                                   !.record = record_build_state(mod, arts)]

\* ------------------------------------------------------------ environment
File1(p, c) == [q \in {p} |-> c]
File2(p, c, q, d) == [r \in {p, q} |-> IF r = p THEN c ELSE d]

ModuleStubs(m) == [found |-> TRUE, units |-> <<Unit(TRUE, File1(<<m \o dot_pyi>>, G))>>]
PackageStubs(m, ok) ==
    [found |-> TRUE,
     units |-> <<Unit(TRUE, File1(<<m, init_pyi>>, G)), Unit(ok, File1(<<m, sub_pyi>>, G))>>]

Installs(m) == {NotFound, PackageStubs(m, TRUE), PackageStubs(m, FALSE)}

\* the user-scope pair and the project-local directory of a module
Overrides(m) ==
    {<<MissingDir, MissingDir, MissingDir>>,
     <<Dir(File1(<<m, init_pyi>>, Y)), MissingDir, Dir(NoFiles)>>,
     <<MissingDir, Dir(File1(<<m, init_pyi>>, Z)), Dir(File1(<<m \o dot_pyi>>, X))>>,
     <<Dir(File2(<<m, init_pyi>>, Y, <<m \o dot_pyi>>, Y)),
       Dir(File1(<<m, init_pyi>>, Z)),
       Dir(File2(<<m, init_pyi>>, X, <<m, sub_pyi>>, X))>>}

Entry(name, details) == [name |-> name, details |-> details]
Configs ==
    {<<<<Entry(mod_a, [version |-> v1]), Entry(mod_b, [bare |-> v1])>>, <<>>>>,
     <<<<Entry(mod_a, EmptyDict), Entry(mod_b, [version |-> auto])>>,
       <<<<mod_a, v1>>, <<mod_b, v1>>>>>>,
     <<<<Entry(mod_a, EmptyDict), Entry(mod_b, [version |-> auto])>>,
       <<<<mod_b, v1>>>>>>}

NoStep ==
    [kind |-> "none", mod |-> Mod(<<>>, EmptyDict), pre_record |-> MissingFile,
     pre_artifacts |-> NoFiles, verdict |-> "none", outcome |-> "none",
     steps |-> <<>>, invoked |-> 0, fault |-> NoFault]

\* override directories are plain trees: one of module m may hold a stub
\* under the name of another module
Other(m) == IF m = mod_a THEN mod_b ELSE mod_a
SharedOverrides(m) ==
    {<<MissingDir, MissingDir, Dir(File1(<<Other(m) \o dot_pyi>>, X))>>,
     <<Dir(File1(<<Other(m) \o dot_pyi>>, Y)), MissingDir, Dir(File1(<<m \o dot_pyi>>, X))>>}

InitOver(overrides) ==
    /\ \E c \in Configs : modules = c[1] /\ requirements = c[2]
    /\ discover_modules = FALSE
    /\ \E ia \in Installs(mod_a) :
          installed = [m \in ModNames |-> IF m = mod_a THEN ia ELSE ModuleStubs(m)]
    /\ \E o \in overrides :
          /\ user_local = [m \in ModNames |->
                              IF m = mod_a THEN <<o[1], o[2]>> ELSE <<MissingDir, MissingDir>>]
          /\ project_local = [m \in ModNames |-> IF m = mod_a THEN o[3] ELSE MissingDir]
    /\ artifacts = NoFiles
    /\ records = [m \in ModNames |-> MissingFile]
    /\ fault = NoFault
    /\ pc = "idle"
    /\ todo = <<>>
    /\ log = <<>>
    /\ exit = "none"
    /\ last = NoStep
    /\ runs = 0
    /\ edits = 0
    /\ links = NoLinks
    /\ listing = NameOrder
    /\ hashed = <<>>

Init == InitOver(Overrides(mod_a))
SharedInit == InitOver(SharedOverrides(mod_a))

\* ---------------------------------------------- configurations to resolve
mod_c == <<99>>
GatherNames == {mod_a, mod_b, mod_c}
MaxEntries == 2
MaxLines == 3

SeqsUpTo(S, n) == UNION {[1..k -> S] : k \in 0..n}
Distinct(ns) == \A i, j \in 1..Len(ns) : ns[i] = ns[j] => i = j

EntryDetails == {[bare |-> v1], [skip |-> TRUE], [version |-> auto]}
GatherConfigs ==
    {[i \in 1..Len(nd[1]) |-> Entry(nd[1][i], nd[2][i])] :
        nd \in {x \in SeqsUpTo(GatherNames, MaxEntries)
                        \X SeqsUpTo(EntryDetails, MaxEntries) :
                   Len(x[1]) = Len(x[2]) /\ Distinct(x[1])}}
\* requirement lines: any names, repeated or not, the versions alternating
GatherRequirements ==
    {[i \in 1..Len(ns) |-> <<ns[i], IF i % 2 = 1 THEN v1 ELSE v2>>] :
        ns \in SeqsUpTo(GatherNames, MaxLines)}

GatherInit ==
    /\ modules \in GatherConfigs
    /\ discover_modules \in BOOLEAN
    /\ requirements \in GatherRequirements
    /\ installed = [m \in ModNames |-> ModuleStubs(m)]
    /\ user_local = [m \in ModNames |-> <<MissingDir, MissingDir>>]
    /\ project_local = [m \in ModNames |-> MissingDir]
    /\ artifacts = NoFiles
    /\ records = [m \in ModNames |-> MissingFile]
    /\ fault = NoFault
    /\ pc = "idle"
    /\ todo = <<>>
    /\ log = <<>>
    /\ exit = "none"
    /\ last = NoStep
    /\ runs = 0
    /\ edits = 0
    /\ links = NoLinks
    /\ listing = NameOrder
    /\ hashed = <<>>

\* ------------------------------------------------------------------- run
\* run(): load the configuration and start the loop over the gathered Mods
StartRun ==
    /\ pc = "idle"
    /\ runs < MaxRuns
    /\ runs' = runs + 1
    /\ todo' = gather_modules_to_build
    /\ log' = <<>>
    /\ pc' = IF todo' = <<>> THEN "idle" ELSE "running"
    /\ exit' = IF todo' = <<>> THEN "ok" ELSE "none"
    /\ UNCHANGED <<env, artifacts, records, fault, edits, last, links, listing, hashed>>

\* one pass of run()'s loop: update_if_required on the next Mod; an
\* exception leaves the loop and ends the process
Build ==
    /\ pc = "running"
    /\ LET mod == Head(todo)
           r == update_if_required(mod, fault)
           jobs == gather_stubgen_jobs(package_name(mod))
           struck == /\ fault.name = mod.name
                     /\ r.verdict = "False"
                     /\ \A i \in 1..Len(jobs) : jobs[i].ok
       IN  /\ artifacts' = r.artifacts
           /\ records' = [records EXCEPT ![mod.name] = r.record]
           /\ fault' = IF struck THEN NoFault ELSE fault
           /\ log' = Append(log, <<mod.name, r.outcome>>)
           /\ last' = [kind |-> "update", mod |-> mod, pre_record |-> records[mod.name],
                       pre_artifacts |-> artifacts, verdict |-> r.verdict,
                       outcome |-> r.outcome, steps |-> r.steps, invoked |-> r.invoked,
                       fault |-> fault]
           /\ IF r.outcome = "raised"
              THEN todo' = <<>> /\ pc' = "idle" /\ exit' = "raised"
              ELSE /\ todo' = Tail(todo)
                   /\ pc' = IF todo' = <<>> THEN "idle" ELSE "running"
                   /\ exit' = IF todo' = <<>> THEN "ok" ELSE "none"
    /\ UNCHANGED <<env, runs, edits, links, listing, hashed>>

\* ------------------------------------------------- changes between two runs
\* the Mod a run would build under a name
ModOf(name) ==
    LET mods == gather_modules_to_build
    IN  mods[CHOOSE i \in 1..Len(mods) : mods[i].name = name]

\* what update_if_required would say of a module now
Verdict(name) == is_built_version(ModOf(name), target_version(ModOf(name)), artifacts)

Edited(kind, name) ==
    /\ pc = "idle"
    /\ runs < MaxRuns
    /\ edits < MaxEdits
    /\ edits' = edits + 1
    /\ last' = [NoStep EXCEPT !.kind = kind, !.mod = ModOf(name),
                              !.verdict = Verdict(name),
                              !.pre_record = records[name],
                              !.pre_artifacts = artifacts]
    /\ UNCHANGED <<pc, todo, log, exit, runs, links, listing, hashed>>

\* one byte of a file changes
OtherByte(c) == IF c = G THEN X ELSE G

\* one byte of a project-local override file changes
TouchOverride ==
    \E m \in ModNames :
    \E p \in DOMAIN project_local[m].files :
       /\ Edited("touch", m)
       /\ project_local' = [project_local EXCEPT ![m].files[p] = OtherByte(@)]
       /\ UNCHANGED <<modules, discover_modules, requirements, installed, user_local,
                      artifacts, records, fault>>

\* a file of a project-local override directory is deleted
DropOverride ==
    \E m \in ModNames :
    \E p \in DOMAIN project_local[m].files :
       /\ Edited("drop", m)
       /\ fault = NoFault
       /\ project_local' =
             [project_local EXCEPT
                 ![m] = Dir([q \in DOMAIN project_local[m].files \ {p} |->
                               project_local[m].files[q]])]
       /\ UNCHANGED <<modules, discover_modules, requirements, installed, user_local,
                      artifacts, records, fault>>

\* a file of a user-scope override directory changes by a byte, is deleted,
\* or is added
UserEdits(d, m) ==
    {[d EXCEPT !.files[p] = OtherByte(@)] : p \in DOMAIN d.files}
    \cup {Dir([q \in DOMAIN d.files \ {p} |-> d.files[q]]) : p \in DOMAIN d.files}
    \cup (IF <<m, sub_pyi>> \in DOMAIN d.files THEN {}
          ELSE {Dir(Update(d.files, File1(<<m, sub_pyi>>, Y)))})
TouchUserOverride ==
    \E m \in ModNames :
    \E i \in 1..2 :
    \E d \in UserEdits(user_local[m][i], m) :
       /\ Edited("user", m)
       /\ fault = NoFault          \* a refused copy is of the files as they are
       /\ user_local' = [user_local EXCEPT ![m][i] = d]
       /\ UNCHANGED <<modules, discover_modules, requirements, installed, project_local,
                      artifacts, records, fault>>

\* one byte of a generated artifact of module m changes
ArtifactsOf(m) == {p \in DOMAIN artifacts : p[1] \in {m, m \o dot_pyi}}
TouchArtifact ==
    \E m \in ModNames :
    \E p \in ArtifactsOf(m) :
       /\ Edited("touch", m)
       /\ artifacts' = [artifacts EXCEPT ![p] = OtherByte(@)]
       /\ UNCHANGED <<env, records, fault>>

\* one byte of the version a module resolves to changes: in its
\* configuration entry, or in every requirement line naming it
OtherVersion(v) == IF v = v1 THEN v2 ELSE v1
Reversion(entry) ==
    IF "bare" \in DOMAIN entry.details
    THEN Entry(entry.name, [bare |-> OtherVersion(entry.details["bare"])])
    ELSE Entry(entry.name, [entry.details EXCEPT !["version"] = OtherVersion(@)])
TouchVersion ==
    \E i \in 1..Len(modules) :
       /\ Edited("touch", modules[i].name)
       /\ IF Get(Details(modules[i]), "version", auto) = auto
          THEN /\ \E j \in 1..Len(requirements) : requirements[j][1] = modules[i].name
               /\ requirements' =
                     [j \in 1..Len(requirements) |->
                         IF requirements[j][1] = modules[i].name
                         THEN <<requirements[j][1], OtherVersion(requirements[j][2])>>
                         ELSE requirements[j]]
               /\ UNCHANGED modules
          ELSE /\ modules' = [modules EXCEPT ![i] = Reversion(@)]
               /\ UNCHANGED requirements
       /\ UNCHANGED <<discover_modules, installed, user_local, project_local,
                      artifacts, records, fault>>

\* the record file is removed, damaged or rewritten by hand
Without(f, key) ==
    Text(SelectSeq(f.lines, LAMBDA line : Len(line) /= 2 \/ line[1] /= key))
With(f, key, value) == Text(Append(Without(f, key).lines, <<key, value>>))
Tampered(f) ==
    {MissingFile, Text(<<>>), Text(<<Malformed>>)}
    \cup (IF f.kind = "text"
          THEN {Without(f, k) : k \in {"version", "hash", "hash_algo"}}
               \cup {With(f, "hash_algo", md5), With(f, "hash", <<>>)}
          ELSE {})
TamperRecord ==
    \E m \in ModNames :
    \E f \in Tampered(records[m]) \ {records[m]} :
       /\ Edited("tamper", m)
       /\ records' = [records EXCEPT ![m] = f]
       /\ UNCHANGED <<env, artifacts, fault>>

\* the filesystem is about to refuse one copy of the next build of a module
DiskFault ==
    \E i \in 1..Len(modules) :
    \E f \in Faults(Mod(modules[i].name, Details(modules[i]))) :
       /\ Edited("fault", modules[i].name)
       /\ fault' = f
       /\ UNCHANGED <<env, artifacts, records>>

Next ==
    \/ StartRun
    \/ Build
    \/ TouchOverride
    \/ TouchArtifact
    \/ TouchVersion
    \/ TamperRecord
    \/ DiskFault

Spec == Init /\ [][Next]_vars

\* the same runs and edits where an override directory of one module holds
\* a stub of another
SharedSpec == SharedInit /\ [][Next]_vars

\* runs between which override files come and go and copies are refused
EditNext ==
    \/ StartRun
    \/ Build
    \/ TouchUserOverride
    \/ DropOverride
    \/ DiskFault
EditSpec == Init /\ [][EditNext]_vars

\* gather_modules_to_build alone, over every small configuration
GatherNext == StartRun
GatherSpec == GatherInit /\ [][GatherNext]_vars
\* ------------------------------------------------- configurations that skip
\* entries with the skip flag set or cleared, names that the version source
\* repeats, and records of every kind already on disk
SkipConfigs ==
    {<<Entry(mod_a, [skip |-> TRUE]), Entry(mod_b, [bare |-> v1])>>,
     <<Entry(mod_a, [version |-> v1]), Entry(mod_b, [skip |-> TRUE, version |-> v1])>>,
     <<Entry(mod_a, [skip |-> TRUE, version |-> auto])>>,
     <<Entry(mod_b, [skip |-> FALSE, version |-> v1]), Entry(mod_a, [skip |-> TRUE])>>}
SkipRequirements == {<<>>, <<<<mod_a, v1>>>>, <<<<mod_b, v2>>, <<mod_a, v1>>>>}
OldRecord == Text(<<<<"version", v1>>, <<"hash", <<>>>>, <<"hash_algo", blake2b>>>>)
SkipRecords == {MissingFile, Text(<<>>), OldRecord}

SkipInit ==
    /\ modules \in SkipConfigs
    /\ discover_modules \in BOOLEAN
    /\ requirements \in SkipRequirements
    /\ installed = [m \in ModNames |-> ModuleStubs(m)]
    /\ user_local = [m \in ModNames |-> <<MissingDir, MissingDir>>]
    /\ project_local = [m \in ModNames |-> Dir(File1(<<m \o dot_pyi>>, X))]
    /\ artifacts = NoFiles
    /\ records \in [ModNames -> SkipRecords]
    /\ fault = NoFault
    /\ pc = "idle"
    /\ todo = <<>>
    /\ log = <<>>
    /\ exit = "none"
    /\ last = NoStep
    /\ runs = 0
    /\ edits = 0
    /\ links = NoLinks
    /\ listing = NameOrder
    /\ hashed = <<>>

SkipNext == StartRun \/ Build
SkipSpec == SkipInit /\ [][SkipNext]_vars
\* ----------------------------------------------------------- interruption
\* The process is interrupted (a signal, a power cut) inside
\* update_if_required of a stale module: while stubgen runs, inside one of
\* the copies, or inside record_build_state after open(..., 'w') has
\* truncated the record file and before toml.dump's text is on disk.
KillPoints(mod) ==
    {[at |-> "generate", fault |-> NoFault]}
    \cup {[at |-> "copy", fault |-> f] : f \in Faults(mod)}
    \cup {[at |-> "record", fault |-> NoFault]}

Killed ==
    /\ pc = "running"
    /\ LET mod == Head(todo)
           jobs == gather_stubgen_jobs(package_name(mod))
       IN  /\ is_built_version(mod, target_version(mod), artifacts) = "False"
           /\ \A i \in 1..Len(jobs) : jobs[i].ok
           /\ \E k \in KillPoints(mod) :
                 LET r == update_if_required(mod, k.fault)
                 IN  /\ k.at = "record" => r.outcome = "built"
                     /\ artifacts' = IF k.at = "generate" THEN artifacts ELSE r.artifacts
                     /\ records' = IF k.at = "record"
                                   THEN [records EXCEPT ![mod.name] = Text(<<>>)]
                                   ELSE records
                     /\ last' = [kind |-> "kill", mod |-> mod,
                                 pre_record |-> records[mod.name],
                                 pre_artifacts |-> artifacts, verdict |-> "False",
                                 outcome |-> "killed",
                                 steps |-> IF k.at = "generate" THEN <<>>
                                           ELSE IF k.at = "copy" THEN r.steps
                                           ELSE SubSeq(r.steps, 1, Len(r.steps) - 1)
                                                \o <<Event("record", FALSE)>>,
                                 invoked |-> r.invoked, fault |-> k.fault]
           /\ log' = Append(log, <<mod.name, "killed">>)
    /\ todo' = <<>>
    /\ pc' = "idle"
    /\ exit' = "killed"
    /\ UNCHANGED <<env, fault, runs, edits, links, listing, hashed>>

KillNext == StartRun \/ Build \/ Killed
KillSpec == Init /\ [][KillNext]_vars
\* ------------------------------------------------------------------ clean
dot_state == <<46, 115, 116, 97, 116, 101>>        \* ".state"

\* os.listdir(local_stubs_dir): the artifacts' first components, .state once
\* a record is there, .local once an override directory is, and the links
listdir ==
    {p[1] : p \in DOMAIN artifacts}
    \cup (IF \E m \in ModNames : records[m].kind /= "missing" THEN {dot_state} ELSE {})
    \cup (IF \E m \in ModNames : project_local[m].exists THEN {dot_local} ELSE {})
    \cup DOMAIN links

\* what islink, isfile, isdir and exists see of an entry: whether it is a
\* link, and the kind of what it resolves to ("none" for a dangling link)
Gone == [islink |-> FALSE, target |-> "none"]
Stat(output) ==
    IF output \in DOMAIN links THEN [islink |-> TRUE, target |-> links[output]]
    ELSE IF <<output>> \in DOMAIN artifacts THEN [islink |-> FALSE, target |-> "file"]
    ELSE [islink |-> FALSE, target |-> "dir"]

\* kill: path.exists follows links, then each test sees what the one before
\* has left
kill(st) ==
    IF st.target = "none" THEN st
    ELSE LET unlinked == IF st.islink THEN Gone ELSE st
             unfiled == IF unlinked.target = "file" THEN Gone ELSE unlinked
         IN  IF unfiled.target = "dir" THEN Gone ELSE unfiled

\* run() with --clean: clean() and return, no module is gathered
Clean ==
    /\ pc = "idle"
    /\ runs < MaxRuns
    /\ runs' = runs + 1
    /\ LET killed == {output \in listdir \ {dot_local} : kill(Stat(output)) = Gone}
       IN  /\ artifacts' = [p \in {q \in DOMAIN artifacts : q[1] \notin killed} |-> artifacts[p]]
           /\ records' = IF dot_state \in killed
                         THEN [m \in ModNames |-> MissingFile] ELSE records
           /\ links' = [n \in DOMAIN links \ killed |-> links[n]]
    /\ todo' = <<>>
    /\ log' = <<>>
    /\ exit' = "ok"
    /\ last' = [NoStep EXCEPT !.kind = "clean", !.pre_artifacts = artifacts]
    /\ UNCHANGED <<env, fault, pc, edits, listing, hashed>>

\* output roots with links of every kind beside built and unbuilt modules
LinkNames == {<<108>>, <<110>>}
LinkTargets == {"file", "dir", "none"}
CleanInit ==
    /\ modules = <<Entry(mod_a, [version |-> v1]), Entry(mod_b, [bare |-> v1])>>
    /\ requirements = <<>>
    /\ discover_modules = FALSE
    /\ installed = [m \in ModNames |->
                       IF m = mod_a THEN PackageStubs(m, TRUE) ELSE ModuleStubs(m)]
    /\ \E o \in Overrides(mod_a) :
          /\ user_local = [m \in ModNames |->
                              IF m = mod_a THEN <<o[1], o[2]>> ELSE <<MissingDir, MissingDir>>]
          /\ project_local = [m \in ModNames |-> IF m = mod_a THEN o[3] ELSE MissingDir]
    /\ artifacts = NoFiles
    /\ records = [m \in ModNames |-> MissingFile]
    /\ fault = NoFault
    /\ pc = "idle"
    /\ todo = <<>>
    /\ log = <<>>
    /\ exit = "none"
    /\ last = NoStep
    /\ runs = 0
    /\ edits = 0
    /\ links \in UNION {[S -> LinkTargets] : S \in SUBSET LinkNames}
    /\ listing = NameOrder
    /\ hashed = <<>>

CleanNext == StartRun \/ Build \/ Clean
CleanSpec == CleanInit /\ [][CleanNext]_vars
\* ------------------------------------------------------- directories to hash
\* hash_dir on the project-local directory of module a, as
\* hash_current_state calls it, over trees of every shape and under every
\* enumeration order
RECURSIVE Reverse(_)
Reverse(names) == IF names = <<>> THEN <<>> ELSE Append(Reverse(Tail(names)), Head(names))
HashOrders == {NameOrder, sorted(NameOrder), Reverse(sorted(NameOrder))}

Flat == Dir(File2(<<mod_a \o dot_pyi>>, X, <<mod_b \o dot_pyi>>, Y))
Deep ==
    Dir(Update(Flat.files,
               Update(File2(<<mod_a, init_pyi>>, X, <<mod_a, sub_pyi>>, Y),
                      File2(<<mod_b, sub_pyi>>, Z, <<mod_b, mod_a, init_pyi>>, G))))
\* 255 files in one directory: with the directory itself, 256 items
LastItem == 254
Alphabet == 26
Big == Dir([p \in {<<<<97 + (i \div Alphabet), 97 + (i % Alphabet)>>>> : i \in 0..LastItem} |-> X])
HashTrees == {MissingDir, Dir(NoFiles), Flat, Deep, Big}

MaxCalls == 2

HashInit ==
    /\ modules = <<Entry(mod_a, [version |-> v1])>>
    /\ requirements = <<>>
    /\ discover_modules = FALSE
    /\ installed = [m \in ModNames |-> ModuleStubs(m)]
    /\ user_local = [m \in ModNames |-> <<MissingDir, MissingDir>>]
    /\ \E t \in HashTrees :
          project_local = [m \in ModNames |-> IF m = mod_a THEN t ELSE MissingDir]
    /\ artifacts = NoFiles
    /\ records = [m \in ModNames |-> MissingFile]
    /\ fault = NoFault
    /\ pc = "idle"
    /\ todo = <<>>
    /\ log = <<>>
    /\ exit = "none"
    /\ last = NoStep
    /\ runs = 0
    /\ edits = 0
    /\ links = NoLinks
    /\ listing \in HashOrders
    /\ hashed = <<>>

\* the directory and the path hash_current_state hands to hash_dir
HashedDir == project_local[mod_a]
HashedPath == project_local_stubs_overrides(Mod(mod_a, EmptyDict))

\* one call of hash_dir: what it fed the hasher, or that bytes() raised
HashDir ==
    /\ Len(hashed) < MaxCalls
    /\ hashed' = Append(hashed,
                        IF hash_dir_raises(HashedDir)
                        THEN [listing |-> listing, raised |-> TRUE, out |-> <<>>]
                        ELSE [listing |-> listing, raised |-> FALSE,
                              out |-> hash_dir(HashedPath, HashedDir)])
    /\ UNCHANGED <<env, artifacts, records, fault, pc, todo, log, exit, last, runs,
                   edits, links, listing>>

\* the filesystem lists its directories in another order from now on
Relist ==
    /\ \E o \in HashOrders \ {listing} : listing' = o
    /\ UNCHANGED <<env, artifacts, records, fault, pc, todo, log, exit, last, runs,
                   edits, links, hashed>>

HashNext == HashDir \/ Relist
HashSpec == HashInit /\ [][HashNext]_vars
\* ------------------------------------------------------------------ claims
Updated == last.kind = "update"
Name == last.mod.name

\* the record has the three keys of a build record
Complete(f) ==
    /\ f.kind = "text"
    /\ toml_parses(f)
    /\ {"version", "hash", "hash_algo"} \subseteq DOMAIN toml_load(f)

\* the four conditions of the transition rule, on the record file f and the
\* output files arts
Trusted(mod, f, arts) ==
    /\ Complete(f)
    /\ toml_load(f)["version"] = target_version(mod)
    /\ toml_load(f)["hash_algo"] \in _allowed_hashes
    /\ toml_load(f)["hash"] = hash_current_state(mod, arts)

\* C1: update_if_required reports a module up to date, and generates nothing,
\* exactly when a build record exists, its version is the resolved target
\* version, its hash_algo is allowed and its hash is the fingerprint of the
\* current inputs; a missing record and a build record with an unrecognized
\* hash_algo give STALE.
C1_FreshIffTrusted ==
    Updated =>
       /\ (last.outcome = "uptodate") <=> Trusted(last.mod, last.pre_record, last.pre_artifacts)
       /\ (last.verdict = "True") <=> (last.outcome = "uptodate")
       /\ last.outcome = "uptodate" =>
             /\ last.invoked = 0
             /\ last.steps = <<>>
             /\ artifacts = last.pre_artifacts
             /\ records[Name] = last.pre_record
       /\ last.pre_record.kind = "missing" =>
             last.verdict = "False" /\ last.steps /= <<>>
       /\ (Complete(last.pre_record)
             /\ toml_load(last.pre_record)["hash_algo"] \notin _allowed_hashes) =>
             last.verdict = "False" /\ last.steps /= <<>>

\* a record that only its hash_algo keeps from being trusted was read
C1_Witness ==
    /\ Updated
    /\ Complete(last.pre_record)
    /\ Trusted(last.mod, With(last.pre_record, "hash_algo", blake2b), last.pre_artifacts)
    /\ toml_load(last.pre_record)["hash_algo"] = md5
    /\ last.verdict = "False"

\* a record file that is there but is no build record
Corrupt(f) == f.kind = "text" /\ ~Complete(f)

\* C2: reading a corrupt build record (unparseable, empty, or lacking one of
\* version, hash, hash_algo) never raises: the module is STALE, is rebuilt,
\* and the run goes on.
C2_CorruptIsStale ==
    (Updated /\ Corrupt(last.pre_record)) =>
        last.verdict = "False" /\ last.steps /= <<>>

\* C3: after an update_if_required that built a module, the same call on the
\* unchanged state finds the new record acceptable: it reports up to date,
\* invokes no generator and copies nothing.
C3_IdempotentRebuild ==
    (Updated /\ last.outcome = "built") =>
       /\ is_built_version(last.mod, target_version(last.mod), artifacts) = "True"
       /\ \A f \in {NoFault, fault} :
             LET again == update_if_required(last.mod, f)
             IN  /\ again.outcome = "uptodate"
                 /\ again.invoked = 0
                 /\ again.steps = <<>>
                 /\ again.artifacts = artifacts
                 /\ again.record = records[Name]

\* a module with overrides in all three directories was built over a
\* generated package
C3_Witness ==
    /\ Updated
    /\ last.outcome = "built"
    /\ last.invoked = 2
    /\ \A i \in 1..3 : override_dirs(last.mod)[i].files /= NoFiles
\* C4: once a module is up to date, changing one byte of a project-local
\* override file, of a generated artifact or of the target version makes it
\* stale: the next update_if_required of the module rebuilds it.
C4_Stale == (last.kind = "touch" /\ last.verdict = "True") => Verdict(Name) = "False"
C4_Rebuilt ==
    (last.kind = "touch" /\ last.verdict = "True"
        /\ last'.kind = "update" /\ last'.mod.name = Name) =>
       (last'.verdict = "False" /\ last'.steps /= <<>>)
C4_NoFalseFreshness == [](C4_Stale) /\ [][C4_Rebuilt]_vars

\* a byte changed in the inputs of a module that was up to date
C4_Witness ==
    /\ last.kind = "touch"
    /\ last.verdict = "True"
    /\ project_local[Name].files /= NoFiles

\* the content of path p in the highest-priority source of the last build
\* that has it, and what was there before when no source has it
Expected(p) ==
    LET local == project_local[last.mod.name]
        minor == user_local[last.mod.name][2]
        major == user_local[last.mod.name][1]
        gen == StubsOf(gather_stubgen_jobs(package_name(last.mod)))
    IN  IF local.exists /\ p \in DOMAIN local.files THEN local.files[p]
        ELSE IF minor.exists /\ p \in DOMAIN minor.files THEN minor.files[p]
        ELSE IF major.exists /\ p \in DOMAIN major.files THEN major.files[p]
        ELSE IF p \in DOMAIN gen THEN gen[p]
        ELSE last.pre_artifacts[p]

AllJobsOk(mod) ==
    \A i \in 1..Len(gather_stubgen_jobs(package_name(mod))) :
       gather_stubgen_jobs(package_name(mod))[i].ok

\* C5: after a rebuild every path of the output holds the content of the
\* highest-priority source that has it: generated stubs, then the user
\* directory of the major version, then of major.minor, then the
\* project-local directory; a missing override directory is no error.
C5_OverridePrecedence ==
    Updated =>
       /\ last.outcome = "built" =>
             /\ DOMAIN artifacts =
                   DOMAIN last.pre_artifacts
                   \cup UNION {DOMAIN Sources(last.mod)[i].files : i \in 1..4}
             /\ \A p \in DOMAIN artifacts : artifacts[p] = Expected(p)
       /\ (last.verdict = "False" /\ AllJobsOk(last.mod) /\ last.fault.name /= Name
             /\ target_version(last.mod) /= None) =>
             last.outcome = "built"

\* one path came from all four sources and a directory was missing elsewhere
C5_Witness ==
    /\ Updated
    /\ last.outcome = "built"
    /\ \E p \in DOMAIN artifacts :
          /\ \A i \in 1..4 : p \in DOMAIN Sources(last.mod)[i].files
          /\ artifacts[p] = X
          /\ Sources(last.mod)[1].files[p] /= X

\* C6: when the generation of the first of two stale modules fails and the
\* second's would succeed, the run still builds the second: at the end the
\* first record is as before and the second is the record of a new build.
C6_PartialFailureIsolation ==
    LET mods == gather_modules_to_build IN
    (/\ pc = "idle" /\ exit /= "none"
     /\ Len(mods) = 2
     /\ Updated /\ last.mod = mods[1]
     /\ log = <<<<mods[1].name, "raised">>>> \/ (Len(log) = 2 /\ log[1][2] = "raised")
     /\ last.verdict = "False" /\ ~AllJobsOk(mods[1])
     /\ AllJobsOk(mods[2]) /\ target_version(mods[2]) /= None
     /\ fault.name /= mods[2].name) =>
       /\ records[mods[1].name] = last.pre_record
       /\ Len(log) = 2
       /\ log[2] = <<mods[2].name, "built">>

FullTrace ==
    <<Event("generate", TRUE), Event("layer", TRUE), Event("layer", TRUE),
      Event("layer", TRUE), Event("record", TRUE)>>

\* C7: a build generates, then layers the three override directories, then
\* writes the record, each step after the one before has completed; the
\* record is written only when every stubgen call and every copy succeeded,
\* and is otherwise left as it was.
C7_BuildOrder ==
    Updated =>
       /\ Len(last.steps) <= Len(FullTrace)
       /\ \A i \in 1..Len(last.steps) :
             /\ last.steps[i][1] = FullTrace[i][1]
             /\ i < Len(last.steps) => last.steps[i][2]
       /\ last.outcome = "built" =>
             /\ AllJobsOk(last.mod)
             /\ last.fault.name /= Name
             /\ last.steps = FullTrace
             /\ toml_load(records[Name])["hash"] = hash_current_state(last.mod, artifacts)
       /\ last.outcome /= "built" =>
             /\ records[Name] = last.pre_record
             /\ \A i \in 1..Len(last.steps) : last.steps[i][1] /= "record"
       /\ (last.verdict = "False" /\ (~AllJobsOk(last.mod) \/ last.fault.name = Name)) =>
             last.outcome = "raised"

\* a copy of the project-local directory was refused after the others were made
C7_Witness ==
    /\ Updated
    /\ last.fault.name = Name
    /\ last.fault.stage = 4
    /\ last.steps = <<Event("generate", TRUE), Event("layer", TRUE),
                      Event("layer", TRUE), Event("layer", FALSE)>>
    /\ last.outcome = "raised"
    /\ artifacts /= last.pre_artifacts

\* C8: when find_spec finds nothing for the package, the build of the
\* module fails: no record is written and the module does not count as built.
C8_NotFoundIsError ==
    (Updated /\ last.verdict = "False" /\ ~installed[package_name(last.mod)].found) =>
        (last.outcome /= "built" /\ records[Name] = last.pre_record)

\* C9: a module whose 'auto' version has no entry in the version source is
\* skipped: no stubgen call, no record, and the run goes on to the others.
C9_UnresolvedAutoSkipped ==
    (Updated /\ target_version(last.mod) = None) =>
        /\ last.invoked = 0
        /\ last.steps = <<>>
        /\ records[Name] = last.pre_record
        /\ last.outcome /= "raised"
\* the state run() is in once gather_modules_to_build has been called
Gathered == runs > 0 /\ log = <<>>
ExplicitNames == {modules[i].name : i \in {j \in 1..Len(modules) : ~Skip(modules[j])}}
ConfiguredNames == {modules[i].name : i \in 1..Len(modules)}
SourcedNames == {requirements[j][1] : j \in 1..Len(requirements)} \ ConfiguredNames
Yields(n) == {i \in 1..Len(todo) : todo[i].name = n}

\* C10: with discovery on, gather_modules_to_build yields one Mod for each
\* configured module that is not skipped, then one for each name of the
\* version source that is not configured, and nothing else: no name twice,
\* and no configured name from the version source.
C10_AutoDiscoveryExclusion ==
    (Gathered /\ discover_modules) =>
       /\ \A n \in ExplicitNames \cup SourcedNames : Cardinality(Yields(n)) = 1
       /\ \A i \in 1..Len(todo) : todo[i].name \in ExplicitNames \cup SourcedNames
       /\ \A i \in 1..Len(todo) :
             IF i <= Cardinality(ExplicitNames)
             THEN /\ todo[i].name \in ExplicitNames
                  /\ \E j \in 1..Len(modules) :
                        modules[j].name = todo[i].name /\ todo[i].config = Details(modules[j])
             ELSE /\ todo[i].name \in SourcedNames
                  /\ todo[i].config = [version |-> auto_version(todo[i].name)]

\* foo configured, foo and bar in the version source: one Mod for each
C10_Witness ==
    /\ Gathered
    /\ discover_modules
    /\ ExplicitNames /= {}
    /\ SourcedNames /= {}
    /\ ExplicitNames \cap {requirements[j][1] : j \in 1..Len(requirements)} /= {}
    /\ Len(todo) = 2

\* the names whose configuration entry sets skip
SkippedNames == {modules[i].name : i \in {j \in 1..Len(modules) : Skip(modules[j])}}

C11_NotQueued ==
    \A n \in SkippedNames :
       /\ \A i \in 1..Len(todo) : todo[i].name /= n
       /\ \A i \in 1..Len(log) : log[i][1] /= n
       /\ Updated => Name /= n
C11_NotRecorded == \A n \in SkippedNames : records'[n] = records[n]

\* C11: a module whose entry sets skip is never built: no run queues it or
\* calls update_if_required on it, and its record is never written, whatever
\* its record holds and whether or not the version source names it while
\* discovery is on.
C11_SkipNeverBuilt == [](C11_NotQueued) /\ [][C11_NotRecorded]_vars

\* a run with discovery on built the other module and ended, the skipped
\* name being in the version source and its record not acceptable
C11_Witness ==
    /\ pc = "idle" /\ exit = "ok"
    /\ discover_modules
    /\ Updated /\ last.outcome = "built"
    /\ \E n \in SkippedNames :
          /\ n \in DOMAIN auto_versions
          /\ records[n] = MissingFile

\* C12: when run() with --clean has returned, nothing that was directly
\* below the output root is left but .local (files, directories and links,
\* dangling ones included), .local is as it was, and no module was built.
C12_CleanRemovesAll ==
    last.kind = "clean" =>
       /\ listdir \subseteq {dot_local}
       /\ log = <<>> /\ todo = <<>>

\* C13: on an unchanged tree every call of hash_dir feeds the hasher the
\* same bytes, whatever the order in which the filesystem lists the
\* subdirectories and files of each directory at the time of the call.
C13_Determinism ==
    \A i, j \in 1..Len(hashed) :
       /\ hashed[i].raised = hashed[j].raised
       /\ hashed[i].out = hashed[j].out

\* a tree with several files and several subdirectories in one directory
\* was hashed under two different enumeration orders
C13_Witness ==
    /\ Len(hashed) = 2
    /\ hashed[1].listing /= hashed[2].listing
    /\ ~hashed[1].raised
    /\ Cardinality(FilesIn(HashedDir.files, <<>>)) >= 2
    /\ Cardinality(DirsIn(HashedDir.files, <<>>)) >= 2
    /\ Enumerate(DirsIn(HashedDir.files, <<>>)) /= sorted(Enumerate(DirsIn(HashedDir.files, <<>>)))

\* C14: after an interruption anywhere in a module's build, the record
\* file is the one from before the run or the complete record of the build
\* just made; it is never empty, torn or partial.
C14_NoTornRecord ==
    last.kind = "kill" =>
       \/ records[Name] = last.pre_record
       \/ /\ Complete(records[Name])
          /\ Trusted(last.mod, records[Name], artifacts)

\* the other modules of the run that were up to date before the last build
FreshBefore ==
    {i \in 1..Len(gather_modules_to_build) :
        LET B == gather_modules_to_build[i]
        IN  /\ B.name /= Name
            /\ is_built_version(B, target_version(B), last.pre_artifacts) = "True"}

\* C15: update_if_required on one module leaves every other module's
\* verdict as it was: a module that was up to date before the build of
\* another is up to date after it.
C15_ModuleIndependence ==
    Updated =>
       \A i \in FreshBefore :
          LET B == gather_modules_to_build[i]
          IN  is_built_version(B, target_version(B), artifacts) = "True"

\* C16 as first stated: a missing directory gives hash_dir the absent flag
\* and nothing else, an existing empty one the present flag, its path and a
\* count of zero, and the two streams differ.
C16_AbsentFlagOnly ==
    /\ \A i \in 1..Len(hashed) :
          /\ HashedDir = MissingDir => hashed[i].out = <<0>>
          /\ HashedDir = Dir(NoFiles) =>
                hashed[i].out = <<1>> \o encode(HashedPath) \o <<0>>
    /\ hash_dir(HashedPath, MissingDir) /= hash_dir(HashedPath, Dir(NoFiles))

\* C16: a missing directory gives hash_dir the absent flag and then the
\* count byte zero, with no path; an existing empty directory gives the
\* present flag, its path and the count byte one, the directory itself
\* being counted; the two streams differ.
C16_AbsentAndEmptyDiffer ==
    /\ \A i \in 1..Len(hashed) :
          /\ HashedDir = MissingDir => hashed[i].out = <<0, 0>>
          /\ HashedDir = Dir(NoFiles) =>
                hashed[i].out = <<1>> \o encode(HashedPath) \o <<1>>
    /\ hash_dir(HashedPath, MissingDir) /= hash_dir(HashedPath, Dir(NoFiles))

\* an existing empty directory was hashed
C16_Witness ==
    /\ hashed /= <<>>
    /\ HashedDir = Dir(NoFiles)
    /\ ~hashed[1].raised
    /\ hashed[1].out /= hash_dir(HashedPath, MissingDir)

\* C17: on a tree of more than 255 items hash_dir completes, and its last
\* byte is the item count modulo 256.
C17_CountWraps ==
    \A i \in 1..Len(hashed) :
       item_count(HashedDir) >= ByteRange =>
          /\ ~hashed[i].raised
          /\ hashed[i].out /= <<>>
          /\ hashed[i].out[Len(hashed[i].out)] = item_count(HashedDir) % ByteRange

Logged == [i \in 1..Len(log) |-> log[i][1]]

C19_NothingDeleted ==
    Updated =>
       /\ DOMAIN last.pre_artifacts \subseteq DOMAIN artifacts
       /\ \A p \in DOMAIN last.pre_artifacts :
             \/ artifacts[p] = last.pre_artifacts[p]
             \/ \E i \in 1..4 :
                   /\ Sources(last.mod)[i].exists
                   /\ p \in DOMAIN Sources(last.mod)[i].files
                   /\ artifacts[p] = Sources(last.mod)[i].files[p]

\* a rebuild left in place a file that no source of the module has any more
C19_Witness ==
    /\ Updated
    /\ last.outcome = "built"
    /\ last.pre_record.kind = "text"
    /\ \E p \in DOMAIN artifacts :
          /\ p \in DOMAIN last.pre_artifacts
          /\ \A i \in 1..4 : p \notin DOMAIN Sources(last.mod)[i].files
          /\ p[1] \in {Name, Name \o dot_pyi}

\* what layering would put at a path of a user-scope directory of the
\* module, were it run now
UserLayer(p) ==
    IF p \in DOMAIN user_local[Name][2].files
    THEN user_local[Name][2].files[p] ELSE user_local[Name][1].files[p]
Unlayered ==
    {p \in DOMAIN user_local[Name][1].files \cup DOMAIN user_local[Name][2].files :
        /\ p \notin DOMAIN project_local[Name].files
        /\ p \notin DOMAIN artifacts \/ artifacts[p] /= UserLayer(p)}

C20_StillFresh ==
    (last.kind = "user" /\ last.verdict = "True") =>
       /\ Verdict(Name) = "True"
       /\ artifacts = last.pre_artifacts
C20_NotLayered ==
    (last.kind = "user" /\ last.verdict = "True"
        /\ last'.kind = "update" /\ last'.mod.name = Name) =>
       /\ last'.outcome = "uptodate"
       /\ last'.invoked = 0
       /\ artifacts' = artifacts
       /\ records' = records
\* the user-scope directories are copied into the output of every build
C20_Layered ==
    (Updated /\ last.outcome = "built") => Unlayered = {}

\* C20: the user-scope override directories are layered by a build but
\* are not hashed: after a file is added to, removed from or changed in one
\* of them, a module that was up to date still is, and the next
\* update_if_required of it copies nothing.
C20_UserOverridesUnhashed ==
    [](C20_StillFresh) /\ [](C20_Layered) /\ [][C20_NotLayered]_vars

\* a module was found up to date while a file of its user-scope
\* directories is not what the output holds
C20_Witness ==
    /\ Updated
    /\ last.outcome = "uptodate"
    /\ Unlayered /= {}
====
